---- MODULE Spec2Model ----
(***************************************************************************)
(* A state-machine model of the ChainCheck contract (contracts/ChainCheck  *)
(* .sol, kept as src/unnamed/part_003).  Every external function is one    *)
(* action: a transaction either runs to its end or reverts, and a reverted *)
(* transaction changes nothing of the contract's storage.                  *)
(*                                                                         *)
(* The spec's names for the code's functions and errors:                   *)
(*   registerBatch = registerProduct, updateMetadata = updateProductMeta-  *)
(*   data, Paused = ContractPaused, NotPaused = ContractNotPaused,         *)
(*   LengthMismatch = require(... "arrays length mismatch"),               *)
(*   ReentrantCall = require(... "reentrant call").                        *)
(***************************************************************************)
EXTENDS Integers, Sequences, FiniteSets, TLC

\* ------------------------------------------------------------------ bounds
\* The latest block timestamp of a run (block.timestamp starts at 1).
MaxTime == 2
\* The number of verification records a run stores, over all serial hashes.
MaxRecords == 3
\* The longest manufacturerList.
MaxList == 2

\* address(0), and the address that deploys the contract.
ZeroAddress == 0
Deployer == 1
\* The addresses of a run: address(0), the deployer and one more account.
Address == {ZeroAddress, Deployer, 2}
\* Batch ids: 0 is the id the code rejects.
BatchId == {0, 1, 2}
\* Serial hashes (bytes32 values, opaque to the contract).
Serial == {1, 2}

VARIABLES
    locked,                 \* _locked, the reentrancy guard
    serialVerified,         \* mapping(bytes32 => bool)
    serialToBatch,          \* mapping(bytes32 => uint256)
    products,               \* mapping(uint256 => Product)
    authorizedMakers,       \* mapping(address => bool)
    owner,                  \* address
    totalProducts,          \* uint256
    totalVerifications,     \* uint256
    batchVerificationCount, \* mapping(uint256 => uint256)
    manufacturerList,       \* address[]
    paused,                 \* bool
    verificationHistory,    \* mapping(bytes32 => VerificationRecord[])
    now,                    \* block.timestamp of the current block
    logs,                   \* the events the latest transaction emitted
    last,                   \* the latest transaction: function, revert reason, return value
    authenticReturns        \* per serial hash, how many verifications have returned true

\* The contract's storage.
storage == <<locked, serialVerified, serialToBatch, products, authorizedMakers,
             owner, totalProducts, totalVerifications, batchVerificationCount,
             manufacturerList, paused, verificationHistory>>

vars == <<storage, now, logs, last, authenticReturns>>

\* The number of records verificationHistory holds for the serial hashes S.
RECURSIVE TotalRecords(_, _)
TotalRecords(history, S) ==
    IF S = {} THEN 0
    ELSE LET s == CHOOSE x \in S : TRUE
         IN  Len(history[s]) + TotalRecords(history, S \ {s})

\* ------------------------------------------------------------------ types
\* Mutant of Product: name and brand change places.
ProductSwapped(name, brand, registeredAt, ipfsHash, description, imageUrl) ==
    [name |-> brand, brand |-> name, exists |-> TRUE, registeredAt |-> registeredAt,
     ipfsHash |-> ipfsHash, description |-> description, imageUrl |-> imageUrl]

\* struct Product as registerProduct fills it, and the value an unset mapping slot
\* reads as.
Product(name, brand, registeredAt, ipfsHash, description, imageUrl) ==
    [name |-> name, brand |-> brand, exists |-> TRUE, registeredAt |-> registeredAt,
     ipfsHash |-> ipfsHash, description |-> description, imageUrl |-> imageUrl]

NoProduct ==
    [name |-> "", brand |-> "", exists |-> FALSE, registeredAt |-> 0,
     ipfsHash |-> "", description |-> "", imageUrl |-> ""]

\* The events.
ProductRegistered(batchId, name, brand, serialCount) ==
    [event |-> "ProductRegistered", batchId |-> batchId, name |-> name,
     brand |-> brand, serialCount |-> serialCount]

Verified(serialHash, batchId, isAuthentic, verifier, timestamp) ==
    [event |-> "Verified", serialHash |-> serialHash, batchId |-> batchId,
     isAuthentic |-> isAuthentic, verifier |-> verifier, timestamp |-> timestamp]

ManufacturerAuthorized(maker, authorized) ==
    [event |-> "ManufacturerAuthorized", maker |-> maker, authorized |-> authorized]

Paused(p) ==
    [event |-> "Paused", paused |-> p]

\* ------------------------------------------------------------------ outcomes
\* A transaction that reverts with `reason`: storage as before, no event.
Revert(fn, reason) ==
    /\ last' = [fn |-> fn, err |-> reason, ret |-> <<>>]
    /\ logs' = <<>>
    /\ UNCHANGED <<storage, now, authenticReturns>>

\* A transaction that ran to its end, returning the values `ret` (a tuple, empty for a
\* function that returns nothing) and emitting `events`.  `asked` are the serial
\* hashes the values of `ret` answer, one each (empty for the other functions).
Done(fn, asked, ret, events) ==
    /\ last' = [fn |-> fn, err |-> "none", ret |-> ret]
    /\ logs' = events
    /\ authenticReturns' = [s \in Serial |-> authenticReturns[s] +
            Cardinality({i \in 1..Len(ret) : asked[i] = s /\ ret[i]})]
    /\ UNCHANGED now

\* ------------------------------------------------------------------ modifiers
\* Each is the condition under which the modifier lets the call go on.
NonReentrantUnchecked == TRUE

NonReentrant == locked # 1

\* Mutant of OnlyOwner: the owner is turned away while the contract is paused.
OnlyOwnerWhenRunning(sender) == sender = owner /\ ~paused

\* Mutant of OnlyOwner: every sender passes.
OnlyOwnerUnchecked(sender) == TRUE

OnlyOwner(sender) == sender = owner

\* Mutant of OnlyMaker: the pause is looked at first, and reported by the next
\* modifier.
OnlyMakerWhenRunning(sender) == paused \/ authorizedMakers[sender]

\* Mutant of OnlyMaker: every sender passes.
OnlyMakerUnchecked(sender) == TRUE

OnlyMaker(sender) == authorizedMakers[sender]

\* Mutant of WhenNotPaused: the modifier checks nothing.
WhenNotPausedUnchecked == TRUE

WhenNotPaused == ~paused

\* Mutant of WhenPaused: the modifier checks nothing.
WhenPausedUnchecked == TRUE

WhenPaused == paused

IsZeroAddressUnchecked(a) == FALSE

\* The check `== address(0)` of authorizeManufacturer and transferOwnership.
IsZeroAddress(a) == a = ZeroAddress

\* ------------------------------------------------------------------ constructor
Init ==
    /\ locked = 0
    /\ serialVerified = [s \in Serial |-> FALSE]
    /\ serialToBatch = [s \in Serial |-> 0]
    /\ products = [b \in BatchId |-> NoProduct]
    /\ authorizedMakers = [a \in Address |-> a = Deployer]
    /\ owner = Deployer
    /\ totalProducts = 0
    /\ totalVerifications = 0
    /\ batchVerificationCount = [b \in BatchId |-> 0]
    /\ manufacturerList = <<Deployer>>
    /\ paused = FALSE
    /\ verificationHistory = [s \in Serial |-> <<>>]
    /\ now = 1
    /\ logs = <<ManufacturerAuthorized(Deployer, TRUE)>>
    /\ last = [fn |-> "constructor", err |-> "none", ret |-> <<>>]
    /\ authenticReturns = [s \in Serial |-> 0]

\* A later block: block.timestamp never goes back.
NewBlock ==
    /\ now < MaxTime
    /\ now' = now + 1
    /\ UNCHANGED <<storage, logs, last, authenticReturns>>

\* ------------------------------------------------------------------ authorizeManufacturer
\* The list after the removal loop: the first entry equal to maker is
\* overwritten by the last entry and the list loses its last entry.
RemoveMaker(list, maker) ==
    LET hits == {i \in 1..Len(list) : list[i] = maker}
    IN  IF hits = {}
        THEN list
        ELSE LET i == CHOOSE k \in hits : \A j \in hits : k <= j
             IN  SubSeq([list EXCEPT ![i] = list[Len(list)]], 1, Len(list) - 1)

\* Mutant of ListAfter: a granted address is pushed whether or not it was
\* authorized.
ListAfterAlwaysPushed(list, maker, authorized, wasAuthorized) ==
    IF authorized THEN Append(list, maker)
    ELSE IF ~authorized /\ wasAuthorized THEN RemoveMaker(list, maker)
    ELSE list

\* manufacturerList after `if (authorized && !wasAuthorized) { push } else if
\* (!authorized && wasAuthorized) { removal loop }`.
ListAfter(list, maker, authorized, wasAuthorized) ==
    IF authorized /\ ~wasAuthorized THEN Append(list, maker)
    ELSE IF ~authorized /\ wasAuthorized THEN RemoveMaker(list, maker)
    ELSE list

AuthorizeManufacturer(sender, maker, authorized) ==
    IF ~OnlyOwner(sender) THEN Revert("authorizeManufacturer", "NotOwner")
    ELSE IF ~NonReentrant THEN Revert("authorizeManufacturer", "ReentrancyGuard")
    ELSE IF IsZeroAddress(maker) THEN Revert("authorizeManufacturer", "InvalidAddress")
    ELSE LET wasAuthorized == authorizedMakers[maker]
         IN  /\ authorized /\ ~wasAuthorized => Len(manufacturerList) < MaxList
             /\ authorizedMakers' = [authorizedMakers EXCEPT ![maker] = authorized]
             /\ manufacturerList' =
                    ListAfter(manufacturerList, maker, authorized, wasAuthorized)
             /\ Done("authorizeManufacturer", <<>>, <<>>,
                     <<ManufacturerAuthorized(maker, authorized)>>)
             /\ UNCHANGED <<locked, serialVerified, serialToBatch, products, owner,
                            totalProducts, totalVerifications, batchVerificationCount,
                            paused, verificationHistory>>

\* ------------------------------------------------------------------ registerProduct
\* Mutant of BatchExists: a registered batch id is not rejected.
BatchExistsUnchecked(batchId) ==
    FALSE

\* The check `products[batchId].exists` of registerProduct.
BatchExists(batchId) ==
    products[batchId].exists

\* Mutant of ZeroBatchId: batch id zero is taken like any other.
ZeroBatchIdUnchecked(batchId) ==
    FALSE

\* The check `batchId == 0` of registerProduct.
ZeroBatchId(batchId) ==
    batchId = 0

\* Mutant of SetBatch: a serial hash that has a batch keeps it.
SetBatchIfUnset(map, serialHashes, batchId) ==
    [s \in DOMAIN map |->
        IF map[s] = 0 /\ \E i \in 1..Len(serialHashes) : serialHashes[i] = s
        THEN batchId ELSE map[s]]

\* serialToBatch after the loop over serialHashes.
SetBatch(map, serialHashes, batchId) ==
    [s \in DOMAIN map |->
        IF \E i \in 1..Len(serialHashes) : serialHashes[i] = s THEN batchId ELSE map[s]]

RegisterProduct(sender, batchId, name, brand, serialHashes, ipfsHash, description, imageUrl) ==
    IF ~OnlyMaker(sender) THEN Revert("registerProduct", "NotAuthorized")
    ELSE IF ~WhenNotPaused THEN Revert("registerProduct", "ContractPaused")
    ELSE IF ~NonReentrant THEN Revert("registerProduct", "ReentrancyGuard")
    ELSE IF ZeroBatchId(batchId) THEN Revert("registerProduct", "InvalidBatchId")
    ELSE IF name = "" THEN Revert("registerProduct", "EmptyName")
    ELSE IF brand = "" THEN Revert("registerProduct", "EmptyBrand")
    ELSE IF Len(serialHashes) = 0 THEN Revert("registerProduct", "NoSerials")
    ELSE IF BatchExists(batchId) THEN Revert("registerProduct", "BatchExists")
    ELSE /\ products' = [products EXCEPT ![batchId] =
                            Product(name, brand, now, ipfsHash, description, imageUrl)]
         /\ serialToBatch' = SetBatch(serialToBatch, serialHashes, batchId)
         /\ totalProducts' = totalProducts + 1
         /\ Done("registerProduct", <<>>, <<>>,
                 <<ProductRegistered(batchId, name, brand, Len(serialHashes))>>)
         /\ UNCHANGED <<locked, serialVerified, authorizedMakers, owner, totalVerifications,
                        batchVerificationCount, manufacturerList, paused,
                        verificationHistory>>

\* ------------------------------------------------------------------ verify
\* Mutant of VerifiedAfter: the status is never written.
VerifiedAfterUnmarked(verified, serialHash, isAuthentic) ==
    verified

\* Mutant of VerifiedAfter: the outcome is written on every verification.
VerifiedAfterOverwritten(verified, serialHash, isAuthentic) ==
    [verified EXCEPT ![serialHash] = isAuthentic]

\* Mutant of VerificationRecord: the record stores the status after the call.
VerificationRecordOfStatus(serialHash, batchId, verifier, timestamp, isAuthentic) ==
    [serialHash |-> serialHash, batchId |-> batchId, verifier |-> verifier,
     timestamp |-> timestamp, isAuthentic |-> TRUE]

\* The record verify and batchVerify push.
VerificationRecord(serialHash, batchId, verifier, timestamp, isAuthentic) ==
    [serialHash |-> serialHash, batchId |-> batchId, verifier |-> verifier,
     timestamp |-> timestamp, isAuthentic |-> isAuthentic]

\* Mutant of InBatch: the membership of the serial hash is not checked.
InBatchUnchecked(serialHash, batchId) ==
    TRUE

\* Mutant of InBatch: a serial hash that is in no batch passes for any batch.
InBatchOrUnset(serialHash, batchId) ==
    serialToBatch[serialHash] \in {0, batchId}

\* The check `serialToBatch[serialHash] != batchId` passes.
InBatch(serialHash, batchId) ==
    serialToBatch[serialHash] = batchId

PushFront(history, record) == <<record>> \o history

\* verificationHistory[serialHash] after `.push(VerificationRecord({...}))`.
Push(history, record) == Append(history, record)

\* Mutant of CountAfter: every verification is counted.
CountAfterEvery(count, isAuthentic) ==
    count + 1

\* A counter after `if (isAuthentic) { ...; count++; }`.
CountAfter(count, isAuthentic) ==
    IF isAuthentic THEN count + 1 ELSE count

\* serialVerified after `if (isAuthentic) { serialVerified[serialHash] = true; ...`.
VerifiedAfter(verified, serialHash, isAuthentic) ==
    IF isAuthentic THEN [verified EXCEPT ![serialHash] = TRUE] ELSE verified

\* Mutant of Verify: the function is put behind onlyMaker.
VerifyByMakers(sender, serialHash, batchId) ==
    IF ~OnlyMaker(sender) THEN Revert("verify", "NotAuthorized") ELSE
    IF ~WhenNotPaused THEN Revert("verify", "ContractPaused")
    ELSE IF ~NonReentrant THEN Revert("verify", "ReentrancyGuard")
    ELSE IF batchId = 0 THEN Revert("verify", "InvalidBatchId")
    ELSE IF ~products[batchId].exists THEN Revert("verify", "BatchNotFound")
    ELSE IF ~InBatch(serialHash, batchId) THEN Revert("verify", "SerialNotInBatch")
    ELSE LET isAuthentic == ~serialVerified[serialHash]
             timestamp == now
         IN  /\ TotalRecords(verificationHistory, Serial) < MaxRecords
             /\ serialVerified' = VerifiedAfter(serialVerified, serialHash, isAuthentic)
             /\ totalVerifications' = CountAfter(totalVerifications, isAuthentic)
             /\ batchVerificationCount' =
                    [batchVerificationCount EXCEPT ![batchId] = CountAfter(@, isAuthentic)]
             /\ verificationHistory' = [verificationHistory EXCEPT ![serialHash] =
                    Push(@, VerificationRecord(serialHash, batchId, sender, timestamp,
                                               isAuthentic))]
             /\ Done("verify", <<serialHash>>, <<isAuthentic>>,
                     <<Verified(serialHash, batchId, isAuthentic, sender, timestamp)>>)
             /\ UNCHANGED <<locked, serialToBatch, products, authorizedMakers, owner,
                            totalProducts, manufacturerList, paused>>

Verify(sender, serialHash, batchId) ==
    IF ~WhenNotPaused THEN Revert("verify", "ContractPaused")
    ELSE IF ~NonReentrant THEN Revert("verify", "ReentrancyGuard")
    ELSE IF batchId = 0 THEN Revert("verify", "InvalidBatchId")
    ELSE IF ~products[batchId].exists THEN Revert("verify", "BatchNotFound")
    ELSE IF ~InBatch(serialHash, batchId) THEN Revert("verify", "SerialNotInBatch")
    ELSE LET isAuthentic == ~serialVerified[serialHash]
             timestamp == now
         IN  /\ TotalRecords(verificationHistory, Serial) < MaxRecords
             /\ serialVerified' = VerifiedAfter(serialVerified, serialHash, isAuthentic)
             /\ totalVerifications' = CountAfter(totalVerifications, isAuthentic)
             /\ batchVerificationCount' =
                    [batchVerificationCount EXCEPT ![batchId] = CountAfter(@, isAuthentic)]
             /\ verificationHistory' = [verificationHistory EXCEPT ![serialHash] =
                    Push(@, VerificationRecord(serialHash, batchId, sender, timestamp,
                                               isAuthentic))]
             /\ Done("verify", <<serialHash>>, <<isAuthentic>>,
                     <<Verified(serialHash, batchId, isAuthentic, sender, timestamp)>>)
             /\ UNCHANGED <<locked, serialToBatch, products, authorizedMakers, owner,
                            totalProducts, manufacturerList, paused>>

\* ------------------------------------------------------------------ transferOwnership
OwnersSwappedKeepingOld(flags, oldOwner, newOwner) ==
    [flags EXCEPT ![newOwner] = TRUE]

OwnersSwappedRevokingOnly(flags, oldOwner, newOwner) ==
    [flags EXCEPT ![oldOwner] = FALSE]

\* The authorization flags after the two writes of transferOwnership.
OwnersSwapped(flags, oldOwner, newOwner) ==
    [[flags EXCEPT ![oldOwner] = FALSE] EXCEPT ![newOwner] = TRUE]

TransferOwnership(sender, newOwner) ==
    IF ~OnlyOwner(sender) THEN Revert("transferOwnership", "NotOwner")
    ELSE IF ~NonReentrant THEN Revert("transferOwnership", "ReentrancyGuard")
    ELSE IF IsZeroAddress(newOwner) THEN Revert("transferOwnership", "InvalidAddress")
    ELSE IF newOwner = owner THEN Revert("transferOwnership", "InvalidOwner")
    ELSE LET oldOwner == owner
         IN  /\ owner' = newOwner
             /\ authorizedMakers' = OwnersSwapped(authorizedMakers, oldOwner, newOwner)
             /\ Done("transferOwnership", <<>>, <<>>,
                     <<ManufacturerAuthorized(oldOwner, FALSE),
                       ManufacturerAuthorized(newOwner, TRUE)>>)
             /\ UNCHANGED <<locked, serialVerified, serialToBatch, products, totalProducts,
                            totalVerifications, batchVerificationCount, manufacturerList,
                            paused, verificationHistory>>

\* ------------------------------------------------------------------ views
GetStatistics == <<totalProducts, totalVerifications, Len(manufacturerList)>>

GetManufacturers == manufacturerList

GetVerificationHistory(serialHash) == verificationHistory[serialHash]

GetVerificationCount(serialHash) == Len(verificationHistory[serialHash])

\* ------------------------------------------------------------------ pause, unpause
Pause(sender) ==
    IF ~OnlyOwner(sender) THEN Revert("pause", "NotOwner")
    ELSE IF ~WhenNotPaused THEN Revert("pause", "ContractPaused")
    ELSE IF ~NonReentrant THEN Revert("pause", "ReentrancyGuard")
    ELSE /\ paused' = TRUE
         /\ Done("pause", <<>>, <<>>, <<Paused(TRUE)>>)
         /\ UNCHANGED <<locked, serialVerified, serialToBatch, products, authorizedMakers,
                        owner, totalProducts, totalVerifications, batchVerificationCount,
                        manufacturerList, verificationHistory>>

Unpause(sender) ==
    IF ~OnlyOwner(sender) THEN Revert("unpause", "NotOwner")
    ELSE IF ~WhenPaused THEN Revert("unpause", "ContractNotPaused")
    ELSE IF ~NonReentrant THEN Revert("unpause", "ReentrancyGuard")
    ELSE /\ paused' = FALSE
         /\ Done("unpause", <<>>, <<>>, <<Paused(FALSE)>>)
         /\ UNCHANGED <<locked, serialVerified, serialToBatch, products, authorizedMakers,
                        owner, totalProducts, totalVerifications, batchVerificationCount,
                        manufacturerList, verificationHistory>>

\* pause() and unpause() in two steps each: the modifiers up to `_locked = 1`, and
\* then the body with the `_locked = 0` that ends nonReentrant.  Between the two
\* the call is running.
Running(fn) ==
    /\ last' = [fn |-> fn, err |-> "running", ret |-> <<>>]
    /\ logs' = <<>>
    /\ UNCHANGED <<now, authenticReturns>>

PauseEnter(sender) ==
    IF ~OnlyOwner(sender) THEN Revert("pause", "NotOwner")
    ELSE IF ~WhenNotPaused THEN Revert("pause", "ContractPaused")
    ELSE IF ~NonReentrant THEN Revert("pause", "ReentrancyGuard")
    ELSE /\ locked' = 1
         /\ Running("pause")
         /\ UNCHANGED <<serialVerified, serialToBatch, products, authorizedMakers, owner,
                        totalProducts, totalVerifications, batchVerificationCount,
                        manufacturerList, paused, verificationHistory>>

PauseExit ==
    /\ last = [fn |-> "pause", err |-> "running", ret |-> <<>>]
    /\ paused' = TRUE
    /\ locked' = 0
    /\ Done("pause", <<>>, <<>>, <<Paused(TRUE)>>)
    /\ UNCHANGED <<serialVerified, serialToBatch, products, authorizedMakers, owner,
                   totalProducts, totalVerifications, batchVerificationCount,
                   manufacturerList, verificationHistory>>

UnpauseEnter(sender) ==
    IF ~OnlyOwner(sender) THEN Revert("unpause", "NotOwner")
    ELSE IF ~WhenPaused THEN Revert("unpause", "ContractNotPaused")
    ELSE IF ~NonReentrant THEN Revert("unpause", "ReentrancyGuard")
    ELSE /\ locked' = 1
         /\ Running("unpause")
         /\ UNCHANGED <<serialVerified, serialToBatch, products, authorizedMakers, owner,
                        totalProducts, totalVerifications, batchVerificationCount,
                        manufacturerList, paused, verificationHistory>>

UnpauseExit ==
    /\ last = [fn |-> "unpause", err |-> "running", ret |-> <<>>]
    /\ paused' = FALSE
    /\ locked' = 0
    /\ Done("unpause", <<>>, <<>>, <<Paused(FALSE)>>)
    /\ UNCHANGED <<serialVerified, serialToBatch, products, authorizedMakers, owner,
                   totalProducts, totalVerifications, batchVerificationCount,
                   manufacturerList, verificationHistory>>

\* ------------------------------------------------------------------ batchVerify
\* Mutant of BatchEntry: the per-batch counter is left out of the loop body.
BatchEntryUncounted(st, sender, serialHash, batchId) ==
    IF batchId = 0 THEN [st EXCEPT !.results = Append(@, FALSE)]
    ELSE IF ~products[batchId].exists THEN [st EXCEPT !.results = Append(@, FALSE)]
    ELSE IF ~InBatch(serialHash, batchId) THEN [st EXCEPT !.results = Append(@, FALSE)]
    ELSE LET isAuthentic == ~st.serialVerified[serialHash]
             verifyTimestamp == now
         IN  [serialVerified |-> VerifiedAfter(st.serialVerified, serialHash, isAuthentic),
              totalVerifications |-> CountAfter(st.totalVerifications, isAuthentic),
              batchVerificationCount |-> st.batchVerificationCount,
              verificationHistory |-> [st.verificationHistory EXCEPT ![serialHash] =
                 Push(@, VerificationRecord(serialHash, batchId, sender, verifyTimestamp,
                                            isAuthentic))],
              results |-> Append(st.results, isAuthentic),
              events |-> Append(st.events, Verified(serialHash, batchId, isAuthentic, sender,
                                                    verifyTimestamp))]

\* One pass of the loop body, on the storage the loop writes (st) and the
\* results and events so far.
BatchEntry(st, sender, serialHash, batchId) ==
    IF batchId = 0 THEN [st EXCEPT !.results = Append(@, FALSE)]
    ELSE IF ~products[batchId].exists THEN [st EXCEPT !.results = Append(@, FALSE)]
    ELSE IF ~InBatch(serialHash, batchId) THEN [st EXCEPT !.results = Append(@, FALSE)]
    ELSE LET isAuthentic == ~st.serialVerified[serialHash]
             verifyTimestamp == now
         IN  [serialVerified |-> VerifiedAfter(st.serialVerified, serialHash, isAuthentic),
              totalVerifications |-> CountAfter(st.totalVerifications, isAuthentic),
              batchVerificationCount |->
                 [st.batchVerificationCount EXCEPT ![batchId] = CountAfter(@, isAuthentic)],
              verificationHistory |-> [st.verificationHistory EXCEPT ![serialHash] =
                 Push(@, VerificationRecord(serialHash, batchId, sender, verifyTimestamp,
                                            isAuthentic))],
              results |-> Append(st.results, isAuthentic),
              events |-> Append(st.events, Verified(serialHash, batchId, isAuthentic, sender,
                                                    verifyTimestamp))]

RECURSIVE BatchLoop(_, _, _, _, _)

\* Mutant of BatchLoop: an entry that fails a check ends the loop (break for
\* continue); the slots after it keep the value the results array starts with.
BatchLoopStopping(st, sender, serialHashes, batchIds, i) ==
    IF i > Len(serialHashes) THEN st
    ELSE LET next == BatchEntry(st, sender, serialHashes[i], batchIds[i])
         IN  IF next.events = st.events
             THEN [next EXCEPT !.results = @ \o [k \in 1..(Len(serialHashes) - i) |-> FALSE]]
             ELSE BatchLoop(next, sender, serialHashes, batchIds, i + 1)

\* The loop of batchVerify from entry i on.
BatchLoop(st, sender, serialHashes, batchIds, i) ==
    IF i > Len(serialHashes) THEN st
    ELSE BatchLoop(BatchEntry(st, sender, serialHashes[i], batchIds[i]),
                   sender, serialHashes, batchIds, i + 1)

\* Mutant of SameLength: more batch ids than serial hashes are let through.
SameLengthOrLonger(serialHashes, batchIds) ==
    Len(serialHashes) <= Len(batchIds)

\* The condition of `require(serialHashes.length == batchIds.length, ...)`.
SameLength(serialHashes, batchIds) ==
    Len(serialHashes) = Len(batchIds)

BatchVerify(sender, serialHashes, batchIds) ==
    IF ~WhenNotPaused THEN Revert("batchVerify", "ContractPaused")
    ELSE IF ~NonReentrant THEN Revert("batchVerify", "ReentrancyGuard")
    ELSE IF ~SameLength(serialHashes, batchIds) THEN Revert("batchVerify", "LengthMismatch")
    ELSE LET st == BatchLoop([serialVerified |-> serialVerified,
                              totalVerifications |-> totalVerifications,
                              batchVerificationCount |-> batchVerificationCount,
                              verificationHistory |-> verificationHistory,
                              results |-> <<>>, events |-> <<>>],
                             sender, serialHashes, batchIds, 1)
         IN  /\ TotalRecords(st.verificationHistory, Serial) <= MaxRecords
             /\ serialVerified' = st.serialVerified
             /\ totalVerifications' = st.totalVerifications
             /\ batchVerificationCount' = st.batchVerificationCount
             /\ verificationHistory' = st.verificationHistory
             /\ Done("batchVerify", serialHashes, st.results, st.events)
             /\ UNCHANGED <<locked, serialToBatch, products, authorizedMakers, owner,
                            totalProducts, manufacturerList, paused>>

\* ------------------------------------------------------------------ updateProductMetadata
FieldAfterAlways(old, new) == new

\* A metadata field after the update: written when the argument is not empty.
FieldAfter(old, new) == IF new # "" THEN new ELSE old

UpdateProductMetadata(sender, batchId, ipfsHash, description, imageUrl) ==
    IF ~OnlyMaker(sender) THEN Revert("updateProductMetadata", "NotAuthorized")
    ELSE IF ~WhenNotPaused THEN Revert("updateProductMetadata", "ContractPaused")
    ELSE IF ~NonReentrant THEN Revert("updateProductMetadata", "ReentrancyGuard")
    ELSE IF batchId = 0 THEN Revert("updateProductMetadata", "InvalidBatchId")
    ELSE IF ~products[batchId].exists THEN Revert("updateProductMetadata", "BatchNotFound")
    ELSE /\ products' = [products EXCEPT ![batchId] =
                [@ EXCEPT !.ipfsHash = FieldAfter(@, ipfsHash),
                          !.description = FieldAfter(@, description),
                          !.imageUrl = FieldAfter(@, imageUrl)]]
         /\ Done("updateProductMetadata", <<>>, <<>>, <<>>)
         /\ UNCHANGED <<locked, serialVerified, serialToBatch, authorizedMakers, owner,
                        totalProducts, totalVerifications, batchVerificationCount,
                        manufacturerList, paused, verificationHistory>>

\* ------------------------------------------------------------------ the system
\* The accounts that send transactions: the deployer and an outsider.
Sender == Address \ {ZeroAddress}
\* The account that scans products.
Scanner == 2
\* The serialHashes arrays handed to registerProduct.
SerialLists == {<<1>>, <<2>>, <<1, 2>>}
\* The (serialHashes, batchIds) arrays handed to batchVerify.
BatchCalls ==
    { << <<>>, <<>> >>, << <<1>>, <<>> >>, << <<>>, <<1>> >>, << <<1>>, <<1>> >>,
      << <<2>>, <<2>> >>,
      << <<1, 1>>, <<1, 1>> >>, << <<1, 2>>, <<1, 1>> >>, << <<2, 1>>, <<0, 2>> >> }

\* Registration, verification and the pause: two serial hashes and two
\* batches, one scanning account, every transaction in one block.
Next ==
    \/ \E sender \in Sender, authorized \in BOOLEAN :
          AuthorizeManufacturer(sender, 2, authorized)
    \/ \E sender \in Sender, batchId \in BatchId, serialHashes \in SerialLists :
          RegisterProduct(sender, batchId, "Widget", "Acme", serialHashes, "", "", "")
    \/ \E serialHash \in Serial, batchId \in BatchId :
          Verify(Scanner, serialHash, batchId)
    \/ \E call \in BatchCalls : BatchVerify(Scanner, call[1], call[2])
    \/ \E sender \in Sender : Pause(sender)
    \/ \E sender \in Sender : Unpause(sender)

Spec == Init /\ [][Next]_vars

\* The owner's functions next to registration and verification, on one serial
\* hash and two batches.
NextAdmin ==
    \/ \E sender \in Sender, maker \in Address, authorized \in BOOLEAN :
          AuthorizeManufacturer(sender, maker, authorized)
    \/ \E sender \in Sender, newOwner \in Address : TransferOwnership(sender, newOwner)
    \/ \E sender \in Sender, batchId \in {1, 2} :
          RegisterProduct(sender, batchId, "Widget", "Acme", <<1>>, "", "", "")
    \/ \E batchId \in {1, 2} : Verify(Scanner, 1, batchId)
    \/ \E batchId \in {1, 2} : BatchVerify(Scanner, <<1>>, <<batchId>>)
    \/ \E sender \in Sender : Pause(sender)
    \/ \E sender \in Sender : Unpause(sender)

SpecAdmin == Init /\ [][NextAdmin]_vars

\* Verifications of one batch, sent by two accounts in blocks of different
\* timestamps.
ClockCalls ==
    { << <<1, 2>>, <<1, 1>> >>, << <<1, 1>>, <<1, 1>> >>, << <<2, 1>>, <<0, 1>> >> }

NextClock ==
    \/ NewBlock
    \/ RegisterProduct(Deployer, 1, "Widget", "Acme", <<1, 2>>, "", "", "")
    \/ \E sender \in Sender, serialHash \in Serial : Verify(sender, serialHash, 1)
    \/ \E sender \in Sender, call \in ClockCalls : BatchVerify(sender, call[1], call[2])

SpecClock == Init /\ [][NextClock]_vars

\* Registrations by two accounts, with valid and invalid arguments.
Labels ==
    { <<"Widget", "Acme">>, <<"", "Acme">>, <<"Widget", "">> }

Metadata ==
    { <<"", "", "">>, <<"Qm1", "about", "img1">> }

RegistryLists ==
    { <<>>, <<1>>, <<1, 2>> }

NextRegistry ==
    \/ \E authorized \in BOOLEAN : AuthorizeManufacturer(Deployer, 2, authorized)
    \/ \E sender \in Sender, batchId \in BatchId, label \in Labels,
          serialHashes \in RegistryLists, meta \in Metadata :
          RegisterProduct(sender, batchId, label[1], label[2], serialHashes,
                          meta[1], meta[2], meta[3])
    \/ Pause(Deployer)
    \/ Unpause(Deployer)

SpecRegistry == Init /\ [][NextRegistry]_vars

\* Registrations of differing products in blocks of different timestamps, next to
\* the verifications of serial hash 1.
CatalogLabels ==
    { <<"Widget", "Acme">>, <<"Gadget", "Bolt">> }

CatalogLists ==
    { <<1>>, <<2, 1>> }

NextCatalog ==
    \/ NewBlock
    \/ \E batchId \in {1, 2}, label \in CatalogLabels, serialHashes \in CatalogLists,
          meta \in Metadata :
          RegisterProduct(Deployer, batchId, label[1], label[2], serialHashes,
                          meta[1], meta[2], meta[3])
    \/ \E batchId \in {1, 2} : Verify(Scanner, 1, batchId)

SpecCatalog == Init /\ [][NextCatalog]_vars

\* The pause gate and the authorization: every function behind whenNotPaused, sent
\* by the owner and by a second account that is authorized or not, on a running and
\* on a paused contract.
GateCalls ==
    { << <<1>>, <<1>> >>, << <<1>>, <<>> >> }

NextGate ==
    \/ \E authorized \in BOOLEAN : AuthorizeManufacturer(Deployer, 2, authorized)
    \/ \E sender \in Sender : Pause(sender)
    \/ \E sender \in Sender : Unpause(sender)
    \/ \E sender \in Sender, batchId \in BatchId :
          RegisterProduct(sender, batchId, "Widget", "Acme", <<1>>, "", "", "")
    \/ \E sender \in Sender, batchId \in BatchId, meta \in Metadata :
          UpdateProductMetadata(sender, batchId, meta[1], meta[2], meta[3])
    \/ \E sender \in Sender, batchId \in BatchId : Verify(sender, 1, batchId)
    \/ \E sender \in Sender, call \in GateCalls : BatchVerify(sender, call[1], call[2])

SpecGate == Init /\ [][NextGate]_vars

\* The metadata of one batch: the deployer registers batch 1, the deployer and a
\* second account, authorized or not, update it with some fields given and some
\* left empty, in blocks of different timestamps.
Registrant == Deployer

Updates ==
    { <<"", "", "">>, <<"Qm2", "", "">>, <<"", "more", "">>, <<"", "", "img2">> }

NextMetadata ==
    \/ NewBlock
    \/ \E authorized \in BOOLEAN : AuthorizeManufacturer(Deployer, 2, authorized)
    \/ Pause(Deployer)
    \/ Unpause(Deployer)
    \/ \E batchId \in {0, 1}, label \in CatalogLabels, meta \in Metadata :
          RegisterProduct(Registrant, batchId, label[1], label[2], <<1>>,
                          meta[1], meta[2], meta[3])
    \/ \E sender \in Sender, batchId \in BatchId, update \in Updates :
          UpdateProductMetadata(sender, batchId, update[1], update[2], update[3])

SpecMetadata == Init /\ [][NextMetadata]_vars

\* The ownership: transfers between the two accounts, next to the authorizations
\* and to the registrations and metadata updates that the accounts then send.
NextOwnership ==
    \/ \E sender \in Sender, newOwner \in Address : TransferOwnership(sender, newOwner)
    \/ \E sender \in Sender, maker \in Sender, authorized \in BOOLEAN :
          AuthorizeManufacturer(sender, maker, authorized)
    \/ \E sender \in Sender : Pause(sender)
    \/ \E sender \in Sender : Unpause(sender)
    \/ \E sender \in Sender :
          RegisterProduct(sender, 1, "Widget", "Acme", <<1>>, "", "", "")
    \/ \E sender \in Sender : UpdateProductMetadata(sender, 1, "Qm2", "", "")

SpecOwnership == Init /\ [][NextOwnership]_vars

\* The life of one batch: registered by the deployer, then every function of the
\* contract called next to it, in blocks of different timestamps.
NextLifetime ==
    \/ NewBlock
    \/ \E sender \in Sender : AuthorizeManufacturer(sender, 2, TRUE)
    \/ \E sender \in Sender : TransferOwnership(sender, 2)
    \/ \E sender \in Sender : Pause(sender)
    \/ \E sender \in Sender : Unpause(sender)
    \/ \E sender \in Sender, label \in CatalogLabels, meta \in Metadata :
          RegisterProduct(sender, 1, label[1], label[2], <<1>>,
                          meta[1], meta[2], meta[3])
    \/ \E sender \in Sender, update \in Updates :
          UpdateProductMetadata(sender, 1, update[1], update[2], update[3])
    \/ Verify(Scanner, 1, 1)
    \/ BatchVerify(Scanner, <<1>>, <<1>>)

SpecLifetime == Init /\ [][NextLifetime]_vars

\* The reentrancy guard: pause() and unpause() taken in two steps, so that the
\* state in which a call is running shows; the next transaction starts when the
\* running one has ended.
Idle == last.err # "running"

NextGuard ==
    \/ Idle /\ \E sender \in Sender : PauseEnter(sender)
    \/ PauseExit
    \/ Idle /\ \E sender \in Sender : UnpauseEnter(sender)
    \/ UnpauseExit
    \/ Idle /\ \E sender \in Sender, authorized \in BOOLEAN :
                  AuthorizeManufacturer(sender, 2, authorized)
    \/ Idle /\ \E sender \in Sender : TransferOwnership(sender, 2)
    \/ Idle /\ \E sender \in Sender :
                  RegisterProduct(sender, 1, "Widget", "Acme", <<1>>, "", "", "")
    \/ Idle /\ \E sender \in Sender : UpdateProductMetadata(sender, 1, "Qm2", "", "")
    \/ Idle /\ \E sender \in Sender : Verify(sender, 1, 1)
    \/ Idle /\ \E sender \in Sender : BatchVerify(sender, <<1>>, <<1>>)

SpecGuard == Init /\ [][NextGuard]_vars

\* ------------------------------------------------------------------ properties
\* A transaction of `fn` that ran to its end.
Succeeded(fn) == last.fn = fn /\ last.err = "none"

\* C1: over any sequence of calls, the verifications of a serial hash (through
\* verify or batchVerify) return true at most once; every later one returns false.
AuthenticAtMostOnce ==
    \A f \in Serial : authenticReturns[f] <= 1

\* C1's case: a serial hash verified as authentic under one batch, registered again
\* under another, and verified there: the later verification has returned false.
AuthenticAtMostOnceWitness ==
    \E f \in Serial :
        /\ authenticReturns[f] = 1
        /\ Len(verificationHistory[f]) = 2
        /\ verificationHistory[f][1].batchId # verificationHistory[f][2].batchId
        /\ Succeeded("verify")
        /\ last.ret = <<FALSE>>
        /\ logs[1].serialHash = f

\* C2: a serial hash's verification status never goes back from true to false.
VerifiedIsMonotone ==
    [][\A f \in Serial : serialVerified[f] => serialVerified'[f]]_vars

\* C2's case: a verified serial hash has been registered again in another batch,
\* the ownership has been transferred and the contract is paused.
VerifiedIsMonotoneWitness ==
    \E f \in Serial :
        /\ serialVerified[f]
        /\ verificationHistory[f][1].batchId # serialToBatch[f]
        /\ owner # Deployer
        /\ paused

\* The original C3: verify fails with SerialNotInBatch whenever the serial hash
\* was registered under another batch than the claimed one.
OtherBatchAlwaysSerialNotInBatch ==
    [][\A s \in Sender, f \in Serial, b \in BatchId :
          Verify(s, f, b) /\ serialToBatch[f] # 0 /\ serialToBatch[f] # b
              => last'.err = "SerialNotInBatch"]_vars

\* C3, amended: verify(f, b) always fails when f is registered under another batch
\* than b; the failure is SerialNotInBatch when the contract is running and b is
\* a registered batch (ContractPaused, InvalidBatchId and BatchNotFound come first).
OtherBatchNeverVerifies ==
    [][\A s \in Sender, f \in Serial, b \in BatchId :
          Verify(s, f, b) /\ serialToBatch[f] # 0 /\ serialToBatch[f] # b
              => /\ last'.err # "none"
                 /\ ~paused /\ b # 0 /\ products[b].exists
                        => last'.err = "SerialNotInBatch"]_vars

\* C3's case: every serial hash is registered, and a verify has failed with
\* SerialNotInBatch: it named a registered batch other than the serial hash's.
OtherBatchNeverVerifiesWitness ==
    /\ \A f \in Serial : serialToBatch[f] # 0
    /\ last.fn = "verify"
    /\ last.err = "SerialNotInBatch"

\* C4: a verify that runs to its end returns the negation of the status the
\* serial hash had before the call.  Returning true, it sets the status and adds
\* exactly 1 to totalVerifications and to the batch's count; returning false, it
\* leaves the status true and both counters as they were.  No other serial
\* hash's status and no other batch's count changes.
VerifyReturnsAndCounts ==
    [][\A s \in Sender, f \in Serial, b \in BatchId :
          Verify(s, f, b) /\ last'.err = "none"
              => /\ last'.ret = <<~serialVerified[f]>>
                 /\ serialVerified' = [serialVerified EXCEPT ![f] = TRUE]
                 /\ IF ~serialVerified[f]
                    THEN /\ totalVerifications' = totalVerifications + 1
                         /\ batchVerificationCount' =
                                [batchVerificationCount EXCEPT ![b] = @ + 1]
                    ELSE /\ totalVerifications' = totalVerifications
                         /\ batchVerificationCount' = batchVerificationCount]_vars

\* C4's case: the second verify of a serial hash has returned false, and the
\* counters still stand at the one first verification.
VerifyReturnsAndCountsWitness ==
    \E f \in Serial :
        /\ Succeeded("verify")
        /\ last.ret = <<FALSE>>
        /\ logs[1].serialHash = f
        /\ Len(verificationHistory[f]) = 2
        /\ totalVerifications = 1
        /\ batchVerificationCount[serialToBatch[f]] = 1

\* The entries of a batchVerify call that pass its three checks, in input order.
PassingEntries(serialHashes, batchIds) ==
    LET Passes(i) == /\ batchIds[i] # 0
                     /\ products[batchIds[i]].exists
                     /\ serialToBatch[serialHashes[i]] = batchIds[i]
    IN  SelectSeq([i \in 1..Len(serialHashes) |-> i], Passes)

\* The records that match the events about serial hash f, in order.
RecordsFor(events, f) ==
    LET About(e) == e.serialHash = f
        mine == SelectSeq(events, About)
    IN  [k \in 1..Len(mine) |->
            [serialHash |-> mine[k].serialHash, batchId |-> mine[k].batchId,
             verifier |-> mine[k].verifier, timestamp |-> mine[k].timestamp,
             isAuthentic |-> mine[k].isAuthentic]]

\* C5: every verification that passes validation (a verify that runs to its end,
\* an entry of batchVerify that passes the three checks) emits exactly one Verified
\* event {serial hash, batch, returned outcome, sender, block timestamp} and appends
\* exactly one record of the same values to the end of that serial hash's history;
\* nothing else is emitted or appended.
OneRecordPerVerification ==
    [][/\ \A s \in Sender, f \in Serial, b \in BatchId :
             Verify(s, f, b) /\ last'.err = "none"
                 => /\ logs' = <<[event |-> "Verified", serialHash |-> f, batchId |-> b,
                                  isAuthentic |-> last'.ret[1], verifier |-> s,
                                  timestamp |-> now]>>
                    /\ \A g \in Serial : verificationHistory'[g] =
                            verificationHistory[g] \o RecordsFor(logs', g)
       /\ \A s \in Sender, call \in ClockCalls :
             BatchVerify(s, call[1], call[2]) /\ last'.err = "none"
                 => LET passing == PassingEntries(call[1], call[2])
                    IN  /\ Len(logs') = Len(passing)
                        /\ \A k \in 1..Len(passing) :
                               logs'[k] = [event |-> "Verified",
                                           serialHash |-> call[1][passing[k]],
                                           batchId |-> call[2][passing[k]],
                                           isAuthentic |-> last'.ret[passing[k]],
                                           verifier |-> s, timestamp |-> now]
                        /\ \A g \in Serial : verificationHistory'[g] =
                               verificationHistory[g] \o RecordsFor(logs', g)]_vars

\* C5's case: a batchVerify has appended two records, one of them the second record
\* of a serial hash whose first was written by another account in an earlier block.
OneRecordPerVerificationWitness ==
    /\ Succeeded("batchVerify")
    /\ Len(logs) = 2
    /\ \E f \in Serial :
          /\ Len(verificationHistory[f]) = 2
          /\ verificationHistory[f][1].verifier # verificationHistory[f][2].verifier
          /\ verificationHistory[f][1].timestamp < verificationHistory[f][2].timestamp
          /\ verificationHistory[f][1].isAuthentic
          /\ ~verificationHistory[f][2].isAuthentic

\* C6: verify fails with ContractPaused when the contract is paused; running, it
\* fails with InvalidBatchId when the claimed batch id is zero and with
\* BatchNotFound when that batch is not registered; and a verify that fails
\* leaves the storage as it was and emits no event.
VerifyRejects ==
    [][\A s \in Sender, f \in Serial, b \in BatchId :
          Verify(s, f, b)
              => /\ paused => last'.err = "ContractPaused"
                 /\ ~paused /\ b = 0 => last'.err = "InvalidBatchId"
                 /\ ~paused /\ b # 0 /\ ~products[b].exists => last'.err = "BatchNotFound"
                 /\ last'.err # "none" => storage' = storage /\ logs' = <<>>]_vars

\* C6's case: a verify has failed with ContractPaused on a paused contract that
\* holds a registered, verified serial hash.
VerifyRejectsWitness ==
    /\ paused
    /\ last.fn = "verify"
    /\ last.err = "ContractPaused"
    /\ totalVerifications > 0

\* The original C7: a registerProduct that names a registered batch id always
\* fails with BatchExists, whoever sends it.
SecondRegistrationAlwaysBatchExists ==
    [][\A sender \in Sender, batchId \in BatchId, label \in Labels,
          serialHashes \in RegistryLists, meta \in Metadata :
          /\ RegisterProduct(sender, batchId, label[1], label[2], serialHashes,
                             meta[1], meta[2], meta[3])
          /\ products[batchId].exists
          => last'.err = "BatchExists"]_vars

\* C7, amended: a registerProduct that names a registered batch id always fails,
\* whoever sends it, and leaves the batch record, the memberships and totalProducts
\* as they were; the failure is BatchExists when the sender is authorized, the
\* contract is running, and the name, the brand and the serial list are not empty
\* (NotAuthorized, ContractPaused, EmptyName, EmptyBrand and NoSerials come first).
SecondRegistrationFails ==
    [][\A sender \in Sender, batchId \in BatchId, label \in Labels,
          serialHashes \in RegistryLists, meta \in Metadata :
          /\ RegisterProduct(sender, batchId, label[1], label[2], serialHashes,
                             meta[1], meta[2], meta[3])
          /\ products[batchId].exists
          => /\ last'.err # "none"
             /\ products' = products
             /\ serialToBatch' = serialToBatch
             /\ totalProducts' = totalProducts
             /\ (/\ authorizedMakers[sender]
                 /\ ~paused
                 /\ label[1] # ""
                 /\ label[2] # ""
                 /\ Len(serialHashes) > 0) => last'.err = "BatchExists"]_vars

\* C7's case: both accounts are authorized, both batch ids are registered, and a
\* registerProduct has failed with BatchExists.
SecondRegistrationFailsWitness ==
    /\ \A a \in Sender : authorizedMakers[a]
    /\ products[1].exists
    /\ products[2].exists
    /\ last.fn = "registerProduct"
    /\ last.err = "BatchExists"

\* The original C8: once a serial hash belongs to a batch, no operation moves it
\* to another batch.
MembershipNeverChanges ==
    [][\A f \in Serial :
          serialToBatch[f] # 0 => serialToBatch'[f] = serialToBatch[f]]_vars

\* C8, amended: a serial hash belongs to one batch at a time, and its batch
\* changes only by a registerProduct that runs to its end, has the serial hash in
\* its list and registers a new batch id, to which the serial hash then belongs;
\* the batch is never set back to zero, and no other operation changes it.
MembershipChangesByRegistration ==
    [][\A f \in Serial :
          serialToBatch'[f] # serialToBatch[f]
              => \E sender \in Sender, batchId \in BatchId, serialHashes \in SerialLists :
                    /\ RegisterProduct(sender, batchId, "Widget", "Acme", serialHashes,
                                       "", "", "")
                    /\ last'.err = "none"
                    /\ \E i \in 1..Len(serialHashes) : serialHashes[i] = f
                    /\ batchId # 0
                    /\ ~products[batchId].exists
                    /\ serialToBatch'[f] = batchId]_vars

\* C8's case: a registerProduct has moved a serial hash that belonged to one
\* batch to another one.
MembershipChangesByRegistrationWitness ==
    \E f \in Serial :
        /\ Succeeded("registerProduct")
        /\ serialToBatch[f] = logs[1].batchId
        /\ verificationHistory[f] # <<>>
        /\ verificationHistory[f][1].batchId # serialToBatch[f]

\* C9: a registerProduct by an authorized sender for a new batch id, on a running
\* contract, is not rejected when a serial hash of its list belongs to another
\* batch, and afterwards every serial hash of its list belongs to the new batch
\* (the last write wins); and on a running contract a verify against a registered
\* batch passes the membership check exactly when the serial hash belongs to that
\* batch now, and fails with SerialNotInBatch otherwise (so also against the batch
\* the serial hash was first registered in).
LastRegistrationWins ==
    [][/\ \A sender \in Sender, batchId \in BatchId, serialHashes \in SerialLists :
             /\ RegisterProduct(sender, batchId, "Widget", "Acme", serialHashes, "", "", "")
             /\ authorizedMakers[sender]
             /\ ~paused
             /\ batchId # 0
             /\ ~products[batchId].exists
             => /\ last'.err = "none"
                /\ \A i \in 1..Len(serialHashes) : serialToBatch'[serialHashes[i]] = batchId
       /\ \A s \in Sender, f \in Serial, b \in BatchId :
             Verify(s, f, b) /\ ~paused /\ b # 0 /\ products[b].exists
                 => /\ serialToBatch[f] = b => last'.err = "none"
                    /\ serialToBatch[f] # b => last'.err = "SerialNotInBatch"]_vars

\* C9's case: a serial hash registered and verified under batch b1 and registered
\* again under b2 has been verified under b2.
LastRegistrationWinsWitness ==
    \E f \in Serial :
        /\ Succeeded("verify")
        /\ logs[1].serialHash = f
        /\ logs[1].batchId = serialToBatch[f]
        /\ Len(verificationHistory[f]) = 2
        /\ verificationHistory[f][1].batchId # serialToBatch[f]
        /\ products[verificationHistory[f][1].batchId].exists

\* C10: a registerProduct that runs to its end writes the batch record (exists, the
\* given name, brand and metadata, the block timestamp), sets the batch of every
\* serial hash of its list and of no other, adds exactly 1 to totalProducts and
\* emits one ProductRegistered event with the batch id, the name, the brand and the
\* length of the list; the verification statuses and counters, the histories, the
\* authorizations, the owner and the pause flag are as before.
RegistrationEffects ==
    [][\A batchId \in BatchId, label \in CatalogLabels, serialHashes \in CatalogLists,
          meta \in Metadata :
          /\ last'.err = "none"
          /\ RegisterProduct(Deployer, batchId, label[1], label[2], serialHashes,
                             meta[1], meta[2], meta[3])
          => /\ products' = [products EXCEPT ![batchId] =
                    [name |-> label[1], brand |-> label[2], exists |-> TRUE,
                     registeredAt |-> now, ipfsHash |-> meta[1],
                     description |-> meta[2], imageUrl |-> meta[3]]]
             /\ serialToBatch' = [f \in Serial |->
                    IF \E i \in 1..Len(serialHashes) : serialHashes[i] = f
                    THEN batchId ELSE serialToBatch[f]]
             /\ totalProducts' = totalProducts + 1
             /\ logs' = <<[event |-> "ProductRegistered", batchId |-> batchId,
                           name |-> label[1], brand |-> label[2],
                           serialCount |-> Len(serialHashes)]>>
             /\ UNCHANGED <<locked, serialVerified, totalVerifications,
                            batchVerificationCount, verificationHistory,
                            authorizedMakers, owner, manufacturerList, paused>>]_vars

\* C10's case: a second batch has been registered in a later block than the first,
\* with metadata, taking over a serial hash that is verified.
RegistrationEffectsWitness ==
    /\ Succeeded("registerProduct")
    /\ totalProducts = 2
    /\ products[logs[1].batchId].registeredAt = 2
    /\ products[logs[1].batchId].ipfsHash = "Qm1"
    /\ \E b \in {1, 2} : products[b].registeredAt = 1
    /\ serialVerified[1]
    /\ serialToBatch[1] = logs[1].batchId
    /\ verificationHistory[1][1].batchId # logs[1].batchId

\* C11: registerProduct fails with NotAuthorized when the sender is not authorized,
\* else with ContractPaused (the spec's Paused) when the contract is paused, else
\* with InvalidBatchId when the batch id is zero, else with EmptyName when the name
\* is empty, else with EmptyBrand when the brand is empty, else with NoSerials when
\* the list of serial hashes is empty; a call that fails so leaves the storage (the
\* batch records, the memberships, every counter) as it was and emits no event.
RegisterRejects ==
    [][\A sender \in Sender, batchId \in BatchId, label \in Labels,
          serialHashes \in RegistryLists, meta \in Metadata :
          RegisterProduct(sender, batchId, label[1], label[2], serialHashes,
                          meta[1], meta[2], meta[3])
          => LET unauthorized == ~authorizedMakers[sender]
                 halted == ~unauthorized /\ paused
                 zero == ~unauthorized /\ ~paused /\ batchId = 0
                 noName == ~unauthorized /\ ~paused /\ batchId # 0 /\ label[1] = ""
                 noBrand == /\ ~unauthorized /\ ~paused /\ batchId # 0
                            /\ label[1] # "" /\ label[2] = ""
                 noSerials == /\ ~unauthorized /\ ~paused /\ batchId # 0
                              /\ label[1] # "" /\ label[2] # "" /\ Len(serialHashes) = 0
             IN  /\ unauthorized => last'.err = "NotAuthorized"
                 /\ halted => last'.err = "ContractPaused"
                 /\ zero => last'.err = "InvalidBatchId"
                 /\ noName => last'.err = "EmptyName"
                 /\ noBrand => last'.err = "EmptyBrand"
                 /\ noSerials => last'.err = "NoSerials"
                 /\ (unauthorized \/ halted \/ zero \/ noName \/ noBrand \/ noSerials)
                        => /\ products' = products
                           /\ serialToBatch' = serialToBatch
                           /\ totalProducts' = totalProducts
                           /\ totalVerifications' = totalVerifications
                           /\ batchVerificationCount' = batchVerificationCount
                           /\ storage' = storage
                           /\ logs' = <<>>]_vars

\* C11's case: with a batch registered and the second account authorized, a
\* registerProduct has failed with NoSerials.
RegisterRejectsWitness ==
    /\ last.fn = "registerProduct"
    /\ last.err = "NoSerials"
    /\ totalProducts >= 1
    /\ authorizedMakers[2]

\* C12: on a running contract a batchVerify with arrays of one length never fails
\* for an entry whose batch id is zero, whose batch is not registered or whose
\* serial hash is not in the batch: the call runs to its end, the results have the
\* length and order of the input, the slot of such an entry holds false, every
\* later entry is still processed (each passing entry leaves its record), and the
\* slot of a passing entry holds what verify would return at that point: true
\* exactly when the serial hash is unverified before the call and no earlier
\* passing entry of the call has the same serial hash.
BatchSoftFails ==
    [][\A call \in BatchCalls :
          /\ BatchVerify(Scanner, call[1], call[2])
          /\ ~paused
          /\ Len(call[1]) = Len(call[2])
          => LET passing == PassingEntries(call[1], call[2])
                 Passes(i) == \E k \in 1..Len(passing) : passing[k] = i
                 Expected(i) ==
                     /\ Passes(i)
                     /\ ~serialVerified[call[1][i]]
                     /\ ~\E j \in 1..(i - 1) : Passes(j) /\ call[1][j] = call[1][i]
             IN  /\ last'.err = "none"
                 /\ Len(last'.ret) = Len(call[1])
                 /\ \A i \in 1..Len(call[1]) : last'.ret[i] = Expected(i)
                 /\ \A f \in Serial :
                        Len(verificationHistory'[f]) = Len(verificationHistory[f]) +
                            Cardinality({i \in 1..Len(call[1]) : Passes(i) /\ call[1][i] = f})]_vars

\* C12's case: a batchVerify of two entries has returned false for its first
\* entry, whose batch id is zero, and true for its second.
BatchSoftFailsWitness ==
    /\ Succeeded("batchVerify")
    /\ last.ret = <<FALSE, TRUE>>
    /\ Len(logs) = 1
    /\ logs[1].serialHash = 1
    /\ logs[1].batchId = 2
    /\ verificationHistory[2] = <<>>
    /\ serialToBatch[2] = 0

\* What the loop of batchVerify starts from: the storage it writes, no result and
\* no event yet.
LoopStart ==
    [serialVerified |-> serialVerified, totalVerifications |-> totalVerifications,
     batchVerificationCount |-> batchVerificationCount,
     verificationHistory |-> verificationHistory, results |-> <<>>, events |-> <<>>]

\* The entries from i on, each handed to the loop of batchVerify alone, one after
\* the other.
RECURSIVE OneByOne(_, _, _, _, _)
OneByOne(st, sender, serialHashes, batchIds, i) ==
    IF i > Len(serialHashes) THEN st
    ELSE OneByOne(BatchLoop(st, sender, <<serialHashes[i]>>, <<batchIds[i]>>, 1),
                  sender, serialHashes, batchIds, i + 1)

\* C13: on a running contract verify(f, b) leaves the verification statuses, the
\* counters, the histories and the events that the loop of batchVerify leaves for
\* the one entry (f, b), and returns that entry's result; a verify that is rejected
\* for its batch id, its batch or the membership is the entry the loop skips with
\* false.  A batchVerify that runs to its end leaves what its entries leave when
\* they are taken one by one in input order, with the same results and events; so a
\* serial hash that a call names twice is authentic at most at its first passing
\* entry.
BatchAsVerifies ==
    [][/\ \A f \in Serial, b \in BatchId :
             Verify(Scanner, f, b) /\ ~paused
                 => LET st == BatchLoop(LoopStart, Scanner, <<f>>, <<b>>, 1)
                    IN  /\ serialVerified' = st.serialVerified
                        /\ totalVerifications' = st.totalVerifications
                        /\ batchVerificationCount' = st.batchVerificationCount
                        /\ verificationHistory' = st.verificationHistory
                        /\ logs' = st.events
                        /\ st.results = IF last'.err = "none" THEN last'.ret ELSE <<FALSE>>
       /\ \A call \in BatchCalls :
             BatchVerify(Scanner, call[1], call[2]) /\ last'.err = "none"
                 => LET st == OneByOne(LoopStart, Scanner, call[1], call[2], 1)
                    IN  /\ serialVerified' = st.serialVerified
                        /\ totalVerifications' = st.totalVerifications
                        /\ batchVerificationCount' = st.batchVerificationCount
                        /\ verificationHistory' = st.verificationHistory
                        /\ logs' = st.events
                        /\ last'.ret = st.results
                        /\ \A i, j \in 1..Len(call[1]) :
                               i < j /\ last'.ret[i] /\ last'.ret[j]
                                   => call[1][i] # call[1][j]]_vars

\* C13's case: a batchVerify has named an unverified serial hash twice, and its
\* first entry is authentic and its second is not.
BatchAsVerifiesWitness ==
    /\ Succeeded("batchVerify")
    /\ last.ret = <<TRUE, FALSE>>
    /\ Len(logs) = 2
    /\ logs[1].serialHash = logs[2].serialHash
    /\ totalVerifications = 1

MakerCall(sender) ==
    \/ \E batchId \in BatchId :
          RegisterProduct(sender, batchId, "Widget", "Acme", <<1>>, "", "", "")
    \/ \E batchId \in BatchId, meta \in Metadata :
          UpdateProductMetadata(sender, batchId, meta[1], meta[2], meta[3])

\* The step is a call of verify or batchVerify, sent by sender.
ScanCall(sender) ==
    \/ \E batchId \in BatchId : Verify(sender, 1, batchId)
    \/ \E call \in GateCalls : BatchVerify(sender, call[1], call[2])

\* The original C15: while the contract is paused every call of registerProduct,
\* updateProductMetadata, verify and batchVerify, by any sender, fails with
\* ContractPaused.
PausedAlwaysReported ==
    [][\A sender \in Sender :
          paused /\ (MakerCall(sender) \/ ScanCall(sender))
              => last'.err = "ContractPaused"]_vars

\* C15, amended: while the contract is paused every call of registerProduct,
\* updateProductMetadata, verify and batchVerify, by any sender, fails and changes
\* nothing; the failure is ContractPaused for verify and batchVerify by any sender
\* and for registerProduct and updateProductMetadata by an authorized sender, and
\* NotAuthorized for registerProduct and updateProductMetadata by a sender that is
\* not authorized.
PausedBlocks ==
    [][\A sender \in Sender :
          /\ paused /\ (MakerCall(sender) \/ ScanCall(sender))
                => /\ last'.err # "none"
                   /\ storage' = storage
                   /\ logs' = <<>>
          /\ paused /\ ScanCall(sender) => last'.err = "ContractPaused"
          /\ paused /\ MakerCall(sender)
                => last'.err = IF authorizedMakers[sender] THEN "ContractPaused"
                               ELSE "NotAuthorized"]_vars

\* C15's case: on a paused contract with a registered batch and both accounts
\* authorized, an updateProductMetadata has failed with ContractPaused.
PausedBlocksWitness ==
    /\ paused
    /\ products[1].exists
    /\ \A a \in Sender : authorizedMakers[a]
    /\ last.fn = "updateProductMetadata"
    /\ last.err = "ContractPaused"

\* The original C16: a registerProduct or updateProductMetadata sent on a paused
\* contract by a sender that is not authorized fails with ContractPaused, not
\* NotAuthorized.
GateBeforeAuthorization ==
    [][\A sender \in Sender :
          paused /\ ~authorizedMakers[sender] /\ MakerCall(sender)
              => last'.err = "ContractPaused"]_vars

\* C16, amended: the authorization is checked before the pause gate: a
\* registerProduct or updateProductMetadata by a sender that is not authorized fails
\* with NotAuthorized whether the contract is paused or running and whatever its
\* arguments, and ContractPaused is what an authorized sender gets on a paused
\* contract, whatever the arguments.
AuthorizationBeforeGate ==
    [][\A sender \in Sender :
          MakerCall(sender)
              => /\ ~authorizedMakers[sender] => last'.err = "NotAuthorized"
                 /\ authorizedMakers[sender] /\ paused => last'.err = "ContractPaused"
                 /\ authorizedMakers[sender] /\ ~paused
                        => last'.err \notin {"NotAuthorized", "ContractPaused"}]_vars

\* C16's case: on a paused contract with a registered batch, a registerProduct by
\* an account whose authorization has been revoked has failed with NotAuthorized.
AuthorizationBeforeGateWitness ==
    /\ paused
    /\ products[1].exists
    /\ ~authorizedMakers[2]
    /\ authorizedMakers[Deployer]
    /\ manufacturerList = <<Deployer>>
    /\ last.fn = "registerProduct"
    /\ last.err = "NotAuthorized"

\* C17: a pause() sent by the owner runs to its end exactly when the contract is
\* running, and then sets the flag and emits Paused(true); an unpause() sent by the
\* owner runs to its end exactly when the contract is paused, and then clears the
\* flag and emits Paused(false); unpause() on a running contract fails with
\* ContractNotPaused (the spec's NotPaused) and pause() on a paused contract fails,
\* and a failed call leaves the flag and the rest of the storage alone and emits
\* nothing.
PauseToggles ==
    [][\A sender \in Sender :
          sender = owner
              => /\ Pause(sender) /\ ~paused
                       => /\ last'.err = "none"
                          /\ paused'
                          /\ logs' = <<[event |-> "Paused", paused |-> TRUE]>>
                 /\ Pause(sender) /\ paused
                       => /\ last'.err # "none"
                          /\ paused'
                          /\ storage' = storage
                          /\ logs' = <<>>
                 /\ Unpause(sender) /\ paused
                       => /\ last'.err = "none"
                          /\ ~paused'
                          /\ logs' = <<[event |-> "Paused", paused |-> FALSE]>>
                 /\ Unpause(sender) /\ ~paused
                       => /\ last'.err = "ContractNotPaused"
                          /\ ~paused'
                          /\ storage' = storage
                          /\ logs' = <<>>]_vars

\* C17's case: after an ownership transfer, the new owner's unpause() of a running
\* contract has failed with ContractNotPaused.
PauseTogglesWitness ==
    /\ owner # Deployer
    /\ ~paused
    /\ last.fn = "unpause"
    /\ last.err = "ContractNotPaused"

\* C18: an authorizeManufacturer for a non-zero address and a transferOwnership to
\* a non-zero address other than the owner, sent by the owner, run to their end on
\* a paused contract as on a running one, with one effect that does not depend on
\* the pause: the flag of the address is set as asked and ManufacturerAuthorized
\* (address, flag) is emitted; the owner becomes the new owner, the old owner's flag
\* is cleared, the new owner's is set and the two events are emitted.  Neither
\* function, however it ends, changes the pause flag.
AdminIgnoresPause ==
    [][\A sender \in Sender, a \in Address :
          /\ \A x \in BOOLEAN :
                AuthorizeManufacturer(sender, a, x)
                    => /\ paused' = paused
                       /\ sender = owner /\ a # 0
                             => /\ last'.err = "none"
                                /\ authorizedMakers' = [authorizedMakers EXCEPT ![a] = x]
                                /\ owner' = owner
                                /\ logs' = <<[event |-> "ManufacturerAuthorized",
                                              maker |-> a, authorized |-> x]>>
          /\ TransferOwnership(sender, a)
                => /\ paused' = paused
                   /\ sender = owner /\ a # 0 /\ a # owner
                         => /\ last'.err = "none"
                            /\ owner' = a
                            /\ authorizedMakers' =
                                   [b \in Address |-> IF b = a THEN TRUE
                                                      ELSE IF b = owner THEN FALSE
                                                      ELSE authorizedMakers[b]]
                            /\ logs' = <<[event |-> "ManufacturerAuthorized",
                                          maker |-> owner, authorized |-> FALSE],
                                         [event |-> "ManufacturerAuthorized",
                                          maker |-> a, authorized |-> TRUE]>>]_vars

\* C18's case: the ownership has been transferred on a paused contract.
AdminIgnoresPauseWitness ==
    /\ paused
    /\ Succeeded("transferOwnership")
    /\ owner = 2
    /\ authorizedMakers[2]
    /\ ~authorizedMakers[Deployer]
    /\ totalProducts = 0

\* The step is a call of one of the four functions behind onlyOwner, sent by sender.
OwnerCall(sender) ==
    \/ \E maker \in Address, authorized \in BOOLEAN :
          AuthorizeManufacturer(sender, maker, authorized)
    \/ \E newOwner \in Address : TransferOwnership(sender, newOwner)
    \/ Pause(sender)
    \/ Unpause(sender)

\* C19: every authorizeManufacturer, transferOwnership, pause and unpause sent by
\* an account that is not the owner fails with NotOwner, whatever its arguments and
\* the pause, and leaves the owner, the authorization flags, the manufacturer list
\* and the pause flag (the whole storage) as they were; and a transferOwnership that
\* runs to its end leaves its sender an account that is not the owner.
NotOwnerRejects ==
    [][\A sender \in Sender :
          /\ sender # owner /\ OwnerCall(sender)
                => /\ last'.err = "NotOwner"
                   /\ owner' = owner
                   /\ authorizedMakers' = authorizedMakers
                   /\ manufacturerList' = manufacturerList
                   /\ paused' = paused
                   /\ storage' = storage
                   /\ logs' = <<>>
          /\ \A newOwner \in Address :
                TransferOwnership(sender, newOwner) /\ last'.err = "none"
                    => sender # owner']_vars

\* C19's case: after the ownership went to the second account, a
\* transferOwnership by the deployer, the previous owner, has failed with NotOwner.
NotOwnerRejectsWitness ==
    /\ owner = 2
    /\ last.fn = "transferOwnership"
    /\ last.err = "NotOwner"
    /\ ~authorizedMakers[Deployer]

\* C20: an authorizeManufacturer(a, x) sent by the owner fails with InvalidAddress
\* when a is the zero address; otherwise it sets the flag of a to x and leaves every
\* other flag, emits ManufacturerAuthorized(a, x), appends a to manufacturerList
\* exactly when x is true and a was not authorized, removes a from the list, by
\* writing the last entry over a's entry and dropping the last entry, exactly when x
\* is false and a was authorized, and otherwise leaves the list as it is.
AuthorizeEffects ==
    [][\A sender \in Sender, a \in Address, x \in BOOLEAN :
          AuthorizeManufacturer(sender, a, x) /\ sender = owner
              => IF a = 0
                 THEN last'.err = "InvalidAddress" /\ storage' = storage
                 ELSE LET was == authorizedMakers[a]
                          n == Len(manufacturerList)
                      IN  /\ last'.err = "none"
                          /\ authorizedMakers' = [authorizedMakers EXCEPT ![a] = x]
                          /\ logs' = <<[event |-> "ManufacturerAuthorized",
                                        maker |-> a, authorized |-> x]>>
                          /\ x /\ ~was => manufacturerList' = Append(manufacturerList, a)
                          /\ ~x /\ was
                                => \E i \in 1..n :
                                      /\ manufacturerList[i] = a
                                      /\ manufacturerList' =
                                            SubSeq([manufacturerList EXCEPT
                                                        ![i] = manufacturerList[n]],
                                                   1, n - 1)
                          /\ (x <=> was) => manufacturerList' = manufacturerList]_vars

\* C21: an authorizeManufacturer(a, x) sent by the owner for a non-zero address
\* whose flag is x already runs to its end, emits ManufacturerAuthorized(a, x) and
\* leaves the flags, the manufacturer list and the rest of the storage exactly as
\* they were; and every authorizeManufacturer(a, x) that runs to its end leaves the
\* flag of a at x, so that a second one is such a call: applied twice it leaves the
\* state it leaves applied once.
AuthorizeIdempotent ==
    [][\A sender \in Sender, a \in Address, x \in BOOLEAN :
          AuthorizeManufacturer(sender, a, x) /\ sender = owner /\ a # 0
              => /\ last'.err = "none"
                 /\ authorizedMakers'[a] = x
                 /\ logs' = <<[event |-> "ManufacturerAuthorized",
                               maker |-> a, authorized |-> x]>>
                 /\ authorizedMakers[a] = x
                       => /\ authorizedMakers' = authorizedMakers
                          /\ manufacturerList' = manufacturerList
                          /\ storage' = storage]_vars

\* C21's case: the deployer, listed first of two, has been granted again; a grant
\* that appends would have left it last.
AuthorizeIdempotentWitness ==
    /\ Succeeded("authorizeManufacturer")
    /\ logs = <<[event |-> "ManufacturerAuthorized", maker |-> Deployer,
                 authorized |-> TRUE]>>
    /\ owner = Deployer
    /\ manufacturerList = <<Deployer, 2>>
    /\ authorizedMakers[Deployer]
    /\ authorizedMakers[2]

\* The number of entries of list that are a.
Occurrences(list, a) ==
    Cardinality({i \in 1..Len(list) : list[i] = a})

\* C22: when the owner's authorizeManufacturer(a, false) has run to its end and the
\* owner's authorizeManufacturer(a, true) is the next call, then after the two calls
\* a is authorized and is in the manufacturer list exactly once.
RevokeThenGrantListsOnce ==
    [][\A sender \in Sender, a \in Address :
          /\ Succeeded("authorizeManufacturer")
          /\ logs = <<[event |-> "ManufacturerAuthorized", maker |-> a,
                       authorized |-> FALSE]>>
          /\ AuthorizeManufacturer(sender, a, TRUE)
          /\ sender = owner
          => /\ last'.err = "none"
             /\ authorizedMakers'[a]
             /\ Occurrences(manufacturerList', a) = 1]_vars

\* C23: transferOwnership(n) sent by the owner fails with InvalidAddress when n is
\* the zero address and with InvalidOwner when n is the owner, changing nothing;
\* otherwise it makes n the owner, clears the old owner's authorization, sets n's,
\* emits ManufacturerAuthorized(old, false) and then ManufacturerAuthorized(n, true)
\* and nothing else, and leaves the rest of the storage alone.  An account whose
\* authorization is clear, as the old owner's then is, has its registerProduct and
\* updateProductMetadata rejected with NotAuthorized.
TransferEffects ==
    [][/\ \A sender \in Sender, n \in Address :
             TransferOwnership(sender, n) /\ sender = owner
                 => IF n = 0
                    THEN last'.err = "InvalidAddress" /\ storage' = storage /\ logs' = <<>>
                    ELSE IF n = owner
                    THEN last'.err = "InvalidOwner" /\ storage' = storage /\ logs' = <<>>
                    ELSE /\ last'.err = "none"
                         /\ owner' = n
                         /\ authorizedMakers' =
                                [a \in Address |-> IF a = n THEN TRUE
                                                   ELSE IF a = owner THEN FALSE
                                                   ELSE authorizedMakers[a]]
                         /\ logs' = <<[event |-> "ManufacturerAuthorized",
                                      maker |-> owner, authorized |-> FALSE],
                                     [event |-> "ManufacturerAuthorized",
                                      maker |-> n, authorized |-> TRUE]>>
                         /\ UNCHANGED <<locked, serialVerified, serialToBatch, products,
                                        totalProducts, totalVerifications,
                                        batchVerificationCount, manufacturerList, paused,
                                        verificationHistory>>
       /\ \A sender \in Sender :
             /\ ~authorizedMakers[sender]
             /\ \/ RegisterProduct(sender, 1, "Widget", "Acme", <<1>>, "", "", "")
                \/ UpdateProductMetadata(sender, 1, "Qm2", "", "")
             => last'.err = "NotAuthorized" /\ storage' = storage]_vars

\* The deployer handed the ownership to account 2 and then had a call rejected.
TransferEffectsWitness ==
    /\ owner = 2
    /\ authorizedMakers[2]
    /\ ~authorizedMakers[Deployer]
    /\ manufacturerList = <<Deployer>>
    /\ last.fn \in {"registerProduct", "updateProductMetadata"}
    /\ last.err = "NotAuthorized"

\* C24: the list getManufacturers returns holds exactly the accounts whose
\* authorization is set, and the totalManufacturers of getStatistics is their number.
ListIsTheAuthorized ==
    /\ \A a \in Address :
          (\E i \in 1..Len(GetManufacturers) : GetManufacturers[i] = a)
              <=> authorizedMakers[a]
    /\ GetStatistics[3] = Cardinality({a \in Address : authorizedMakers[a]})

\* C25: updateProductMetadata(b, ipfsHash, description, imageUrl) sent by an
\* authorized account while the contract runs fails with InvalidBatchId when b is 0
\* and with BatchNotFound when batch b is not registered; otherwise each of the three
\* fields takes the argument when the argument is not empty and keeps its value when
\* it is empty, so that a field that is not empty never becomes empty.
UpdateEffects ==
    [][\A sender \in Sender, b \in BatchId, update \in Updates :
          /\ UpdateProductMetadata(sender, b, update[1], update[2], update[3])
          /\ authorizedMakers[sender]
          /\ ~paused
          => IF b = 0
             THEN last'.err = "InvalidBatchId" /\ storage' = storage
             ELSE IF ~products[b].exists
             THEN last'.err = "BatchNotFound" /\ storage' = storage
             ELSE /\ last'.err = "none"
                  /\ products'[b].ipfsHash =
                         IF update[1] = "" THEN products[b].ipfsHash ELSE update[1]
                  /\ products'[b].description =
                         IF update[2] = "" THEN products[b].description ELSE update[2]
                  /\ products'[b].imageUrl =
                         IF update[3] = "" THEN products[b].imageUrl ELSE update[3]
                  /\ products[b].ipfsHash # "" => products'[b].ipfsHash # ""
                  /\ products[b].description # "" => products'[b].description # ""
                  /\ products[b].imageUrl # "" => products'[b].imageUrl # ""]_vars

\* An update that gave the ipfsHash alone, on a batch registered with all three.
UpdateEffectsWitness ==
    /\ Succeeded("updateProductMetadata")
    /\ products[1].exists
    /\ products[1].ipfsHash = "Qm2"
    /\ products[1].description = "about"
    /\ products[1].imageUrl = "img1"

\* C26: a registered batch stays registered, and its name, brand and registeredAt
\* stay what they are, whatever is called; its ipfsHash, description and imageUrl
\* change in no step but a updateProductMetadata on that batch that ran to its end.
BatchRecordIsKept ==
    [][\A b \in BatchId :
          products[b].exists
              => /\ products'[b].exists
                 /\ products'[b].name = products[b].name
                 /\ products'[b].brand = products[b].brand
                 /\ products'[b].registeredAt = products[b].registeredAt
                 /\ \/ products'[b] = products[b]
                    \/ /\ last'.fn = "updateProductMetadata"
                       /\ last'.err = "none"
                       /\ \E sender \in Sender, update \in Updates :
                             UpdateProductMetadata(sender, b, update[1], update[2],
                                                   update[3])]_vars

\* A second registration of batch 1, in a later block, was turned down.
BatchRecordIsKeptWitness ==
    /\ products[1].exists
    /\ products[1].registeredAt < now
    /\ products[1].ipfsHash = "Qm2"
    /\ last.fn = "registerProduct"
    /\ last.err = "BatchExists"

\* The sum of batchVerificationCount over the batches B.
RECURSIVE SumOfCounts(_)
SumOfCounts(B) ==
    IF B = {} THEN 0
    ELSE LET b == CHOOSE x \in B : TRUE
         IN  batchVerificationCount[b] + SumOfCounts(B \ {b})

\* C27: always, totalProducts is the number of registered batches, and
\* totalVerifications is the number of serial hashes marked verified and the sum of
\* batchVerificationCount over the batches; no step makes one of the counters
\* smaller, and a call that fails leaves all of them as they were.
CountersAgree ==
    /\ [](/\ totalProducts = Cardinality({b \in BatchId : products[b].exists})
          /\ totalVerifications = Cardinality({s \in Serial : serialVerified[s]})
          /\ totalVerifications = SumOfCounts(BatchId))
    /\ [][/\ totalProducts' >= totalProducts
          /\ totalVerifications' >= totalVerifications
          /\ \A b \in BatchId : batchVerificationCount'[b] >= batchVerificationCount[b]
          /\ last'.err # "none"
                => UNCHANGED <<totalProducts, totalVerifications,
                               batchVerificationCount>>]_vars

\* Batch 1 holds two serial hashes; the first was verified twice, the second once,
\* and then a call failed.
CountersAgreeWitness ==
    /\ totalProducts = 1
    /\ totalVerifications = 2
    /\ batchVerificationCount[1] = 2
    /\ Len(verificationHistory[1]) = 2
    /\ Len(verificationHistory[2]) = 1
    /\ last.err # "none"

\* C28: over every step and for every serial hash, the history
\* getVerificationHistory returns before the step is a prefix of the one it returns
\* after it, and getVerificationCount always is the length of that history.
LedgerIsAppendOnly ==
    /\ [](\A s \in Serial : GetVerificationCount(s) = Len(GetVerificationHistory(s)))
    /\ [][\A s \in Serial :
             /\ Len(GetVerificationHistory(s)') >= Len(GetVerificationHistory(s))
             /\ SubSeq(GetVerificationHistory(s)', 1, Len(GetVerificationHistory(s)))
                    = GetVerificationHistory(s)]_vars

\* Serial hash 1 was verified in two blocks, authentic the first time only.
LedgerIsAppendOnlyWitness ==
    /\ GetVerificationCount(1) >= 2
    /\ GetVerificationHistory(1)[1].isAuthentic
    /\ ~GetVerificationHistory(1)[2].isAuthentic
    /\ GetVerificationHistory(1)[1].timestamp < GetVerificationHistory(1)[2].timestamp
    /\ GetVerificationCount(2) = 1

UpdatesOnlyOwnProducts ==
    [][\A sender \in Sender, b \in BatchId, update \in Updates :
          /\ last'.fn = "updateProductMetadata"
          /\ last'.err = "none"
          /\ UpdateProductMetadata(sender, b, update[1], update[2], update[3])
          => authorizedMakers[sender] /\ sender = Registrant]_vars

\* The original C31: a pause() sent by the owner to a paused contract fails with
\* ContractNotPaused (the spec's NotPaused).
PauseOnPausedReportsNotPaused ==
    [][\A sender \in Sender :
          Pause(sender) /\ sender = owner /\ paused
              => last'.err = "ContractNotPaused"]_vars

\* C31: a pause() sent to a paused contract fails and changes nothing: with
\* ContractPaused (the spec's Paused) when the owner sends it, with NotOwner
\* when another account does.
PauseOnPausedReportsPaused ==
    [][\A sender \in Sender :
          Pause(sender) /\ paused
              => /\ last'.err = IF sender = owner THEN "ContractPaused" ELSE "NotOwner"
                 /\ storage' = storage
                 /\ logs' = <<>>]_vars

\* The new owner's pause() of a paused contract was turned down.
PauseOnPausedReportsPausedWitness ==
    /\ paused
    /\ owner = 2
    /\ last.fn = "pause"
    /\ last.err = "ContractPaused"

\* What a call leaves behind, the account that sent it taken out of the records
\* and events it wrote.
NoVerifier(records) ==
    [i \in 1..Len(records) |->
        [f \in DOMAIN records[i] |->
            IF f = "verifier" THEN ZeroAddress ELSE records[i][f]]]

Outcome ==
    <<last, NoVerifier(logs), serialVerified, serialToBatch, products, authorizedMakers,
      owner, totalProducts, totalVerifications, batchVerificationCount, manufacturerList,
      paused, [s \in Serial |-> NoVerifier(verificationHistory[s])]>>

\* C32: whatever a verify or a batchVerify sent by one account does, in the same
\* state and with the same arguments the call sent by any other account, owner or
\* not, authorized or not, does the same: the same error or return values, the
\* same storage, the same records and events but for the verifier they name.
CallerIsIrrelevant ==
    [][\A s1 \in Sender : \A s2 \in Sender \ {s1} :
          /\ \A batchId \in BatchId :
                last'.fn = "verify" /\ Verify(s1, 1, batchId)
                    => \A o \in {Outcome'} :
                          ENABLED (Verify(s2, 1, batchId) /\ Outcome' = o)
          /\ \A call \in GateCalls :
                last'.fn = "batchVerify" /\ BatchVerify(s1, call[1], call[2])
                    => \A o \in {Outcome'} :
                          ENABLED (BatchVerify(s2, call[1], call[2]) /\ Outcome' = o)]_vars

\* Account 2, neither the owner nor authorized, had serial hash 1 found authentic.
CallerIsIrrelevantWitness ==
    /\ last.fn \in {"verify", "batchVerify"}
    /\ last.ret = <<TRUE>>
    /\ verificationHistory[1][1].verifier = 2
    /\ ~authorizedMakers[2]
    /\ owner = Deployer

\* C33: in a batchVerify that runs to its end, an entry whose batch id is zero,
\* whose batch is not registered or whose serial hash is not in the batch leaves
\* nothing: the events are those of the passing entries, one each and in order; a
\* status, a history or a per-batch counter changes only for the serial hash or the
\* batch of a passing entry; the counters grow by the number of true results; and
\* every passing entry, before or after a failing one, has its serial hash marked
\* and its record kept.  A call whose entries all fail changes nothing.
FailedEntryLeavesNoTrace ==
    [][\A call \in BatchCalls :
          /\ last'.fn = "batchVerify"
          /\ last'.err = "none"
          /\ BatchVerify(Scanner, call[1], call[2])
          => LET passing == PassingEntries(call[1], call[2])
                 PassingSerial(f) == \E k \in 1..Len(passing) : call[1][passing[k]] = f
                 PassingBatch(b) == \E k \in 1..Len(passing) : call[2][passing[k]] = b
                 authentic == Cardinality({i \in 1..Len(call[1]) : last'.ret[i]})
             IN  /\ Len(logs') = Len(passing)
                 /\ \A k \in 1..Len(passing) :
                        /\ logs'[k].serialHash = call[1][passing[k]]
                        /\ logs'[k].batchId = call[2][passing[k]]
                 /\ \A f \in Serial :
                        IF PassingSerial(f)
                        THEN /\ serialVerified'[f]
                             /\ Len(verificationHistory'[f]) > Len(verificationHistory[f])
                        ELSE /\ serialVerified'[f] = serialVerified[f]
                             /\ verificationHistory'[f] = verificationHistory[f]
                 /\ \A b \in BatchId :
                        ~PassingBatch(b)
                            => batchVerificationCount'[b] = batchVerificationCount[b]
                 /\ totalVerifications' = totalVerifications + authentic
                 /\ passing = <<>> => storage' = storage /\ logs' = <<>>]_vars

\* A batchVerify of two entries: the first was found authentic, the second, whose
\* serial hash is in no batch, left nothing.
FailedEntryLeavesNoTraceWitness ==
    /\ Succeeded("batchVerify")
    /\ last.ret = <<TRUE, FALSE>>
    /\ Len(logs) = 1
    /\ logs[1].serialHash = 1
    /\ serialVerified[1]
    /\ ~serialVerified[2]
    /\ verificationHistory[2] = <<>>
    /\ totalVerifications = 1

\* C34: always and for every serial hash f, verificationHistory[f] holds a record
\* exactly when serialVerified[f] is set; its first record is authentic and every
\* later one is not; and every record in it names f and the non-zero id of a
\* registered batch.
HistoryMatchesStatus ==
    \A f \in Serial :
        LET history == verificationHistory[f]
        IN  /\ (history # <<>>) <=> serialVerified[f]
            /\ \A i \in 1..Len(history) :
                  /\ history[i].isAuthentic <=> (i = 1)
                  /\ history[i].serialHash = f
                  /\ history[i].batchId # 0
                  /\ products[history[i].batchId].exists

\* Serial hash 1 was verified against batch 1, registered again under batch 2 and
\* verified against batch 2.
HistoryMatchesStatusWitness ==
    /\ Len(verificationHistory[1]) >= 2
    /\ verificationHistory[1][1].batchId = 1
    /\ verificationHistory[1][2].batchId = 2
    /\ serialVerified[1]
    /\ serialToBatch[1] = 2
    /\ verificationHistory[2] = <<>>

\* The original C35: a serial hash whose status is set is in a batch, and that
\* batch is registered; and a verify of a serial hash that is in no batch, against
\* any registered batch, fails with SerialNotInBatch.
UnregisteredAlwaysSerialNotInBatch ==
    /\ [](\A f \in Serial :
             serialVerified[f]
                 => serialToBatch[f] # 0 /\ products[serialToBatch[f]].exists)
    /\ [][\A f \in Serial, b \in BatchId :
             Verify(Scanner, f, b) /\ serialToBatch[f] = 0 /\ products[b].exists
                 => last'.err = "SerialNotInBatch"]_vars

\* C35: a serial hash whose status is set is in a batch, and that batch is
\* registered; and a verify of a serial hash that is in no batch, against any
\* registered batch, fails and changes nothing: with SerialNotInBatch while the
\* contract runs, with ContractPaused while it is paused.
UnregisteredNeverVerifies ==
    /\ [](\A f \in Serial :
             serialVerified[f]
                 => serialToBatch[f] # 0 /\ products[serialToBatch[f]].exists)
    /\ [][\A f \in Serial, b \in BatchId :
             Verify(Scanner, f, b) /\ serialToBatch[f] = 0 /\ products[b].exists
                 => /\ last'.err = IF paused THEN "ContractPaused" ELSE "SerialNotInBatch"
                    /\ storage' = storage
                    /\ logs' = <<>>]_vars

\* Serial hash 2 is in no batch, and its verify against the registered batch 1,
\* whose serial hash 1 was verified, was turned down.
UnregisteredNeverVerifiesWitness ==
    /\ last.fn = "verify"
    /\ last.err = "SerialNotInBatch"
    /\ serialToBatch[2] = 0
    /\ ~serialVerified[2]
    /\ serialToBatch[1] = 1
    /\ serialVerified[1]
    /\ products[2].exists

\* The original C36: always, the owner is an authorized manufacturer.
OwnerIsAuthorized ==
    authorizedMakers[owner]

\* C36: the deployer is the owner and is authorized when the constructor has run;
\* a transferOwnership that runs to its end leaves the new owner authorized; the
\* owner's authorization is cleared by no step but the owner's own
\* authorizeManufacturer(owner, false), and the owner's
\* authorizeManufacturer(owner, true) sets it again.
OwnerStaysAuthorizedUnlessSelfRevoked ==
    /\ [](last.fn = "constructor" => owner = Deployer /\ authorizedMakers[owner])
    /\ [](Succeeded("transferOwnership") => authorizedMakers[owner])
    /\ [][/\ authorizedMakers[owner] /\ ~authorizedMakers'[owner']
             => /\ owner' = owner
                /\ last' = [fn |-> "authorizeManufacturer", err |-> "none", ret |-> <<>>]
                /\ logs' = <<[event |-> "ManufacturerAuthorized", maker |-> owner,
                              authorized |-> FALSE]>>
          /\ ~authorizedMakers[owner] /\ AuthorizeManufacturer(owner, owner, TRUE)
             => last'.err = "none" /\ authorizedMakers'[owner']]_vars

\* The second owner has revoked itself and is the owner still.
OwnerStaysAuthorizedUnlessSelfRevokedWitness ==
    /\ owner = 2
    /\ ~authorizedMakers[2]
    /\ Succeeded("authorizeManufacturer")
    /\ logs = <<[event |-> "ManufacturerAuthorized", maker |-> 2, authorized |-> FALSE]>>

\* C37: always, no address is in the manufacturer list twice.
ListHasNoDuplicates ==
    \A i \in 1..Len(manufacturerList), j \in 1..Len(manufacturerList) :
        manufacturerList[i] = manufacturerList[j] => i = j

\* The original C38: always and for every batch b, batchVerificationCount[b] is the
\* number of serial hashes that are in b and whose status is set.
CountFollowsMembership ==
    \A b \in BatchId \ {0} :
        batchVerificationCount[b] =
            Cardinality({f \in Serial : serialToBatch[f] = b /\ serialVerified[f]})

\* C38: always and for every batch b, batchVerificationCount[b] is the number of
\* serial hashes whose first, authentic verification was against b; it is the
\* number of serial hashes that are in b and whose status is set as long as every
\* verified serial hash still is in the batch it was verified against.
CountFollowsVerification ==
    /\ \A b \in BatchId \ {0} :
          batchVerificationCount[b] =
              Cardinality({f \in Serial : /\ verificationHistory[f] # <<>>
                                          /\ verificationHistory[f][1].batchId = b})
    /\ (\A f \in Serial :
           serialVerified[f] => serialToBatch[f] = verificationHistory[f][1].batchId)
       => \A b \in BatchId \ {0} :
             batchVerificationCount[b] =
                 Cardinality({f \in Serial : serialToBatch[f] = b /\ serialVerified[f]})

\* Serial hash 1 was verified against batch 1 and then registered under batch 2.
CountFollowsVerificationWitness ==
    /\ serialVerified[1]
    /\ verificationHistory[1][1].batchId = 1
    /\ serialToBatch[1] = 2
    /\ batchVerificationCount[1] = 1
    /\ batchVerificationCount[2] = 0
    /\ Succeeded("registerProduct")

\* C39: no step from a paused contract, the unpause() included, changes the
\* products, the serial hashes' batches, the verification statuses, the counters
\* or the histories; the pause flag changes in no step but a pause() or an
\* unpause() that ran to its end; and when unpause() has run, the verify of a
\* registered serial hash whose status is clear, against its batch, returns true.
PauseFreezes ==
    [][/\ paused
          => UNCHANGED <<products, serialToBatch, serialVerified, totalProducts,
                         totalVerifications, batchVerificationCount,
                         verificationHistory>>
       /\ paused' # paused
          => /\ last'.err = "none"
             /\ last'.fn = IF paused THEN "unpause" ELSE "pause"
       /\ /\ Succeeded("unpause")
          /\ serialToBatch[1] = 1
          /\ ~serialVerified[1]
          /\ Verify(Scanner, 1, 1)
          => /\ last'.ret = <<TRUE>>
             /\ serialVerified'[1]]_vars

\* A pause() and then the unpause() of the second owner have run; serial hash 1,
\* registered in an earlier block, is in batch 1 still and its status is clear.
PauseFreezesWitness ==
    /\ Succeeded("unpause")
    /\ ~paused
    /\ owner = 2
    /\ products[1].exists
    /\ products[1].registeredAt < now
    /\ serialToBatch[1] = 1
    /\ ~serialVerified[1]

\* C40: always, the owner is not the zero address, and the zero address is neither
\* authorized nor in the manufacturer list; and on a paused contract the owner's
\* unpause() can be called and runs to its end, leaving the contract running.
OwnershipIsKept ==
    /\ [](/\ owner # 0
          /\ ~authorizedMakers[0]
          /\ \A i \in 1..Len(manufacturerList) : manufacturerList[i] # 0)
    /\ [](paused => ENABLED (Unpause(owner) /\ last'.err = "none" /\ ~paused'))
    /\ [][\A sender \in Sender :
             paused /\ sender = owner /\ Unpause(sender)
                 => last'.err = "none" /\ ~paused']_vars

\* The contract was paused by the deployer; the ownership went to account 2, a
\* transfer to the zero address was turned down, and account 2 can unpause.
OwnershipIsKeptWitness ==
    /\ paused
    /\ owner = 2
    /\ last.fn \in {"transferOwnership", "authorizeManufacturer"}
    /\ last.err = "InvalidAddress"

====
